---------------------------- MODULE Spec2Model ----------------------------
(***************************************************************************)
(* GeneratorDataManager<GeneratorPtr, DataPtr, ReferencedType>             *)
(* (Qt3DRender/private/texturedatamanager_p.h).                            *)
(*                                                                         *)
(* A generator handle is an instance number; two handles point to equal    *)
(* generators when Value gives them the same number.  A data handle is 0   *)
(* (the default-constructed, empty DataPtr) or a number in 1..NumData.     *)
(* m_data is the QVector<Entry>; an Entry pointer is an index into it and  *)
(* nullptr is 0.                                                           *)
(*                                                                         *)
(* Spec     : the calls made one after the other; after a call, call and   *)
(*            pre hold the call with its result and the collection before  *)
(*            it, until the caller goes on (Return).                       *)
(* SpecLife : the mutating calls one after the other, with the counts of   *)
(*            Entry lifetimes per generator value.                         *)
(* SpecConc : Threads call concurrently; a step is one statement of a      *)
(*            handler, QMutexLocker included.                              *)
(***************************************************************************)
EXTENDS Integers, Sequences, FiniteSets, TLC

\* ------------------------------------------------------------------ bounds
\* generator handles, referencers, non-empty data handles
NumGenerators == 3
NumReferencers == 2
NumData == 1
\* SpecLife: the Entries created per generator value
MaxLifetimes == 2
\* SpecConc: the threads, and the calls they make in all
NumThreads == 2
MaxCalls == 2
\* SpecConcFair: the generator handles and referencers the threads call with
NumFairGenerators == 1
NumFairReferencers == 1
\* executions of one generator the scheduler starts for one Entry, and at a time
MaxExecutions == 2
\* SpecOwn: the consumers that keep a handle returned by getData
NumHolders == 1

Generators == 1..NumGenerators
Referencers == 1..NumReferencers
Threads == 1..NumThreads
Holders == 1..NumHolders
NullData == 0
DataPtrs == 0..NumData

\* the value a generator handle points to: handles 1,2 are equal, 3,4 are equal, ...
Value(g) == (g + 1) \div 2
Values == {Value(g) : g \in Generators}

\* *a == *b on two generator handles
GeneratorEq(a, b) == Value(a) = Value(b)

VARIABLES m_data, call, pre, lost, trueCount, destroyedCount, assigned, m_mutex, th, ncalls,
          running, executed, held, refs, freed

vars == <<m_data, call, pre, lost, trueCount, destroyedCount, assigned, m_mutex, th, ncalls,
          running, executed, held, refs, freed>>
callVars == <<call, pre, lost>>
lifeVars == <<trueCount, destroyedCount, assigned>>
concVars == <<m_mutex, th, ncalls>>
frameVars == <<running, executed>>
ownVars == <<held, refs, freed>>

\* --------------------------------------------------------- QVector helpers
\* QVector<T>::contains
VecContains(s, x) == \E i \in 1..Len(s) : s[i] = x

\* removeAll that empties the vector in which it finds x
removeAll_clears(s, x) == IF \E i \in 1..Len(s) : s[i] = x THEN <<>> ELSE s

\* QVector<T>::removeAll
removeAll(s, x) == SelectSeq(s, LAMBDA y : y # x)

\* erase that takes out the first element whatever the iterator
erase_front(m, i) == SubSeq(m, 2, Len(m))

\* QVector<T>::erase(it)
erase(m, i) == SubSeq(m, 1, i - 1) \o SubSeq(m, i + 1, Len(m))

\* ------------------------------------------------------- private helpers
\* findEntry comparing the handles instead of the generators they point to
findEntry_byHandle(m, g) ==
  LET S == {i \in 1..Len(m) : m[i].generator = g}
  IN  IF S = {} THEN 0 ELSE CHOOSE i \in S : \A j \in S : i <= j

\* Entry *findEntry(generator): the first index whose generator is equal, 0 for nullptr
findEntry(m, g) ==
  LET S == {i \in 1..Len(m) : GeneratorEq(m[i].generator, g)}
  IN  IF S = {} THEN 0 ELSE CHOOSE i \in S : \A j \in S : i <= j

\* createEntry whose new Entry is not empty of data
createEntry_withData(m, g) ==
  Append(m, [generator |-> g, referencingObjects |-> <<>>, data |-> NumData])

\* Entry *createEntry(generator): m_data.push_back(newEntry); the pointer is Len of the result
createEntry(m, g) ==
  Append(m, [generator |-> g, referencingObjects |-> <<>>, data |-> NullData])

\* ------------------------------------------------------ public operations
\* the reference step also resetting the Entry's data
addReferencer_clearsData(m, e, r) ==
  IF VecContains(m[e].referencingObjects, r)
  THEN m
  ELSE [m EXCEPT ![e].referencingObjects = Append(@, r), ![e].data = NullData]

\* the reference step without the contains test
addReferencer_noCheck(m, e, r) ==
  [m EXCEPT ![e].referencingObjects = Append(@, r)]

\* if (!entry->referencingObjects.contains(r)) entry->referencingObjects.push_back(r)
addReferencer(m, e, r) ==
  IF VecContains(m[e].referencingObjects, r)
  THEN m
  ELSE [m EXCEPT ![e].referencingObjects = Append(@, r)]

\* requestData returning true whenever it added the referencer
requestData_trueOnNewReferencer(m, g, r) ==
  LET entry == findEntry(m, g)
      m1 == IF entry = 0 THEN createEntry(m, g) ELSE m
      e1 == IF entry = 0 THEN Len(m1) ELSE entry
  IN  [m_data |-> addReferencer(m1, e1, r),
       ret |-> ~VecContains(m1[e1].referencingObjects, r)]

\* requestData returning true as long as the Entry has no data
requestData_trueWhilePending(m, g, r) ==
  LET entry == findEntry(m, g)
      m1 == IF entry = 0 THEN createEntry(m, g) ELSE m
      e1 == IF entry = 0 THEN Len(m1) ELSE entry
  IN  [m_data |-> addReferencer(m1, e1, r), ret |-> (m1[e1].data = NullData)]

requestData(m, g, r) ==
  LET entry == findEntry(m, g)
      needsToBeCreated == (entry = 0)
      m1 == IF needsToBeCreated THEN createEntry(m, g) ELSE m
      e1 == IF needsToBeCreated THEN Len(m1) ELSE entry
  IN  [m_data |-> addReferencer(m1, e1, r), ret |-> needsToBeCreated]

\* the loop of releaseData without the erase of an emptied Entry
RECURSIVE releaseLoop_keepsEmpty(_, _, _, _)
releaseLoop_keepsEmpty(m, g, r, it) ==
  IF it > Len(m) THEN m
  ELSE IF GeneratorEq(m[it].generator, g)
       THEN releaseLoop_keepsEmpty([m EXCEPT ![it].referencingObjects = removeAll(@, r)],
                                   g, r, it + 1)
       ELSE releaseLoop_keepsEmpty(m, g, r, it + 1)

\* the loop of releaseData erasing the Entry it matches without the test of
\* referencingObjects.empty()
RECURSIVE releaseLoop_erasesMatch(_, _, _, _)
releaseLoop_erasesMatch(m, g, r, it) ==
  IF it > Len(m) THEN m
  ELSE IF GeneratorEq(m[it].generator, g)
       THEN erase([m EXCEPT ![it].referencingObjects = removeAll(@, r)], it)
       ELSE releaseLoop_erasesMatch(m, g, r, it + 1)

\* the for loop of releaseData from iterator position it; end is m_data.end()
\* taken before the loop (the vector does not change length before the return)
RECURSIVE releaseLoop(_, _, _, _)
releaseLoop(m, g, r, it) ==
  IF it > Len(m) THEN m
  ELSE IF GeneratorEq(m[it].generator, g)
       THEN LET m1 == [m EXCEPT ![it].referencingObjects = removeAll(@, r)]
            IN  IF m1[it].referencingObjects = <<>>
                THEN erase(m1, it)
                ELSE releaseLoop(m1, g, r, it + 1)
       ELSE releaseLoop(m, g, r, it + 1)

releaseData(m, g, r) == releaseLoop(m, g, r, 1)

\* getData reading the first Entry instead of the Entry found
getData_firstEntry(m, g) ==
  IF Len(m) > 0 THEN m[1].data ELSE NullData

getData(m, g) ==
  LET entry == findEntry(m, g)
  IN  IF entry # 0 THEN m[entry].data ELSE NullData

\* the loop of pendingGenerators without the test of entry.data
RECURSIVE pendingLoop_ignoresData(_, _, _)
pendingLoop_ignoresData(m, i, ret) ==
  IF i > Len(m) THEN ret
  ELSE IF ~VecContains(ret, m[i].generator)
       THEN pendingLoop_ignoresData(m, i + 1, Append(ret, m[i].generator))
       ELSE pendingLoop_ignoresData(m, i + 1, ret)

\* the for loop of pendingGenerators; ret.contains compares the handles
RECURSIVE pendingLoop(_, _, _)
pendingLoop(m, i, ret) ==
  IF i > Len(m) THEN ret
  ELSE IF m[i].data = NullData /\ ~VecContains(ret, m[i].generator)
       THEN pendingLoop(m, i + 1, Append(ret, m[i].generator))
       ELSE pendingLoop(m, i + 1, ret)

pendingGenerators(m) == pendingLoop(m, 1, <<>>)

\* assignData that stores only into an Entry without data
assignData_keepsPresent(m, g, d) ==
  LET entry == findEntry(m, g)
  IN  IF entry = 0 \/ m[entry].data # NullData THEN m ELSE [m EXCEPT ![entry].data = d]

\* assignData that creates the Entry it does not find
assignData_createsEntry(m, g, d) ==
  LET entry == findEntry(m, g)
  IN  IF entry = 0
      THEN Append(m, [generator |-> g, referencingObjects |-> <<>>, data |-> d])
      ELSE [m EXCEPT ![entry].data = d]

assignData(m, g, d) ==
  LET entry == findEntry(m, g)
  IN  IF entry = 0 THEN m ELSE [m EXCEPT ![entry].data = d]

contains(m, g) == findEntry(m, g) # 0

\* ------------------------------------------------- history of the calls
\* an Entry equal to value v is in m
EntriesOf(m, v) == {i \in 1..Len(m) : Value(m[i].generator) = v}
HasEntry(m, v) == EntriesOf(m, v) # {}

\* the values of which m holds an Entry with data and m2 holds no Entry
LostBy(m, m2) ==
  {v \in Values : ~HasEntry(m2, v) /\ \E i \in EntriesOf(m, v) : m[i].data # NullData}

NoCall == [op |-> "none", g |-> 0, r |-> 0, d |-> 0, ret |-> 0]

\* a thread that is in no call and keeps no result
NoThread ==
  [pc |-> "idle", op |-> "none", g |-> 0, r |-> 0, d |-> 0, entry |-> 0, end |-> 0,
   needsToBeCreated |-> FALSE, ret |-> FALSE, sawNone |-> FALSE, intact |-> FALSE,
   rivals |-> {}]

Init ==
  /\ m_data = <<>>
  /\ call = NoCall
  /\ pre = <<>>
  /\ lost = {}
  /\ trueCount = [v \in Values |-> 0]
  /\ destroyedCount = [v \in Values |-> 0]
  /\ assigned = [v \in Values |-> {}]
  /\ m_mutex = 0
  /\ th = [t \in Threads |-> NoThread]
  /\ ncalls = 0
  /\ running = [g \in Generators |-> 0]
  /\ executed = [v \in Values |-> 0]
  /\ held = [c \in Holders |-> NullData]
  /\ refs = [d \in DataPtrs \ {NullData} |-> 0]
  /\ freed = {}

\* ------------------------------------------- Spec: one call after the other
\* lost : the values whose Entry was erased while it had data, each kept until
\*        the caller has gone on from the requestData that made an Entry of
\*        that value again
RequestData ==
  \E g \in Generators, r \in Referencers :
    LET res == requestData(m_data, g, r) IN
      /\ call.op = "none"
      /\ m_data' = res.m_data
      /\ call' = [op |-> "requestData", g |-> g, r |-> r, d |-> 0, ret |-> res.ret]
      /\ pre' = m_data
      /\ UNCHANGED <<lost, lifeVars, concVars, frameVars, ownVars>>

ReleaseData ==
  \E g \in Generators, r \in Referencers :
    /\ call.op = "none"
    /\ m_data' = releaseData(m_data, g, r)
    /\ call' = [op |-> "releaseData", g |-> g, r |-> r, d |-> 0, ret |-> 0]
    /\ pre' = m_data
    /\ lost' = lost \cup LostBy(m_data, m_data')
    /\ UNCHANGED <<lifeVars, concVars, frameVars, ownVars>>

\* getData that makes the Entry it does not find
GetData_createsEntry ==
  \E g \in Generators :
    /\ call.op = "none"
    /\ m_data' = IF findEntry(m_data, g) = 0 THEN createEntry(m_data, g) ELSE m_data
    /\ call' = [op |-> "getData", g |-> g, r |-> 0, d |-> 0, ret |-> getData(m_data, g)]
    /\ pre' = m_data
    /\ UNCHANGED <<lost, lifeVars, concVars, frameVars, ownVars>>

GetData ==
  \E g \in Generators :
    /\ call.op = "none"
    /\ call' = [op |-> "getData", g |-> g, r |-> 0, d |-> 0, ret |-> getData(m_data, g)]
    /\ pre' = m_data
    /\ UNCHANGED <<m_data, lost, lifeVars, concVars, frameVars, ownVars>>

PendingGenerators ==
  /\ call.op = "none"
  /\ call' = [op |-> "pendingGenerators", g |-> 0, r |-> 0, d |-> 0,
              ret |-> pendingGenerators(m_data)]
  /\ pre' = m_data
  /\ UNCHANGED <<m_data, lost, lifeVars, concVars, frameVars, ownVars>>

AssignData ==
  \E g \in Generators, d \in DataPtrs :
    /\ call.op = "none"
    /\ m_data' = assignData(m_data, g, d)
    /\ call' = [op |-> "assignData", g |-> g, r |-> 0, d |-> d, ret |-> 0]
    /\ pre' = m_data
    /\ UNCHANGED <<lost, lifeVars, concVars, frameVars, ownVars>>

Contains ==
  \E g \in Generators :
    /\ call.op = "none"
    /\ call' = [op |-> "contains", g |-> g, r |-> 0, d |-> 0, ret |-> contains(m_data, g)]
    /\ pre' = m_data
    /\ UNCHANGED <<m_data, lost, lifeVars, concVars, frameVars, ownVars>>

\* the caller has taken the result; the manager is between two calls
Return ==
  /\ call.op # "none"
  /\ call' = NoCall
  /\ pre' = <<>>
  /\ lost' = {v \in lost : ~HasEntry(m_data, v)}
  /\ UNCHANGED <<m_data, lifeVars, concVars, frameVars, ownVars>>

Next ==
  \/ RequestData
  \/ ReleaseData
  \/ GetData
  \/ PendingGenerators
  \/ AssignData
  \/ Contains
  \/ Return

Spec == Init /\ [][Next]_vars

\* ------------------------------- SpecLife: the lifetimes of the Entries
\* trueCount[v]      : requestData calls for value v that returned true
\* destroyedCount[v] : Entries of value v erased
\* assigned[v]       : {} while no assignData has reached the Entry of v that is in
\*                     m_data, else {d} for the handle d of the last one that did
\* The queries change nothing and are left out; pendingGenerators(m_data) is
\* what a query made in the state would return.
CountDestroyed(m, m2) ==
  [v \in Values |->
     destroyedCount[v] + Cardinality(EntriesOf(m, v)) - Cardinality(EntriesOf(m2, v))]

RequestDataLife ==
  \E g \in Generators, r \in Referencers :
    LET res == requestData(m_data, g, r) IN
      /\ res.ret => trueCount[Value(g)] < MaxLifetimes
      /\ m_data' = res.m_data
      /\ trueCount' = IF res.ret THEN [trueCount EXCEPT ![Value(g)] = @ + 1] ELSE trueCount
      /\ assigned' = IF res.ret THEN [assigned EXCEPT ![Value(g)] = {}] ELSE assigned
      /\ UNCHANGED <<destroyedCount, callVars, concVars, frameVars, ownVars>>

ReleaseDataLife ==
  \E g \in Generators, r \in Referencers :
    LET m2 == releaseData(m_data, g, r) IN
      /\ m_data' = m2
      /\ destroyedCount' = CountDestroyed(m_data, m2)
      /\ UNCHANGED <<trueCount, assigned, callVars, concVars, frameVars, ownVars>>

AssignDataLife ==
  \E g \in Generators, d \in DataPtrs :
    /\ m_data' = assignData(m_data, g, d)
    /\ assigned' = IF HasEntry(m_data, Value(g))
                   THEN [assigned EXCEPT ![Value(g)] = {d}] ELSE assigned
    /\ UNCHANGED <<trueCount, destroyedCount, callVars, concVars, frameVars, ownVars>>

NextLife ==
  \/ RequestDataLife
  \/ ReleaseDataLife
  \/ AssignDataLife

SpecLife == Init /\ [][NextLife]_vars

\* -------------------------------------- SpecConc: the calls of the Threads
\* th[t].pc is the statement thread t is at, th[t].entry the Entry pointer, loop
\* index or iterator of its handler, th[t].end the vector size the loop took.
\* A returned requestData or contains keeps its arguments and result in th[t]
\* until the thread's next call.  For a requestData, sawNone says that no equal
\* Entry was in m_data when the call was made, intact that no releaseData has
\* worked on an equal Entry since, and rivals holds the threads whose
\* requestData has worked on an equal Entry since.
\* ncalls counts the calls made; the threads make MaxCalls calls in all.
Calls ==
  [op : {"requestData", "releaseData"}, g : Generators, r : Referencers, d : {NullData}]
    \cup [op : {"getData", "contains"}, g : Generators, r : {0}, d : {NullData}]
    \cup [op : {"pendingGenerators"}, g : {0}, r : {0}, d : {NullData}]
    \cup [op : {"assignData"}, g : Generators, r : {0}, d : DataPtrs]

Set(t, rec) == th' = [th EXCEPT ![t] = rec]

\* the return of a handler: the thread is in no call; keep is what it retains
Returned(rec, ret, keep) ==
  IF keep
  THEN [rec EXCEPT !.pc = "idle", !.entry = 0, !.end = 0,
                   !.needsToBeCreated = FALSE, !.ret = ret]
  ELSE NoThread

\* thread t calls an operation; contains takes no lock
CallOp(t) ==
  /\ th[t].pc = "idle"
  /\ ncalls < MaxCalls
  /\ ncalls' = ncalls + 1
  /\ \E c \in Calls :
       Set(t, [NoThread EXCEPT !.pc = IF c.op = "contains" THEN "contains" ELSE "lock",
                               !.op = c.op, !.g = c.g, !.r = c.r, !.d = c.d,
                               !.sawNone = (c.op = "requestData"
                                              /\ ~HasEntry(m_data, Value(c.g))),
                               !.intact = (c.op = "requestData")])
  /\ UNCHANGED <<m_data, m_mutex, callVars, lifeVars, frameVars, ownVars>>

\* a locker that does not wait for the mutex
Lock_noWait(t) ==
  /\ th[t].pc = "lock"
  /\ m_mutex' = t
  /\ Set(t, [th[t] EXCEPT !.pc = th[t].op])
  /\ UNCHANGED <<m_data, callVars, lifeVars, frameVars, ownVars, ncalls>>

\* QMutexLocker lock(&m_mutex)
Lock(t) ==
  /\ th[t].pc = "lock"
  /\ m_mutex = 0
  /\ m_mutex' = t
  /\ Set(t, [th[t] EXCEPT !.pc = th[t].op])
  /\ UNCHANGED <<m_data, callVars, lifeVars, frameVars, ownVars, ncalls>>

\* a return that leaves the mutex locked
Unlock_keepsLocked(t) == m_mutex' = m_mutex

\* ~QMutexLocker at a return
Unlock(t) == m_mutex' = IF m_mutex = t THEN 0 ELSE m_mutex

\* thread t, in requestData, works on the Entry of value v: t becomes a rival
\* of the other threads' requestData for v
Rival(t, rec, v) ==
  th' = [u \in Threads |->
           IF u = t THEN rec
           ELSE IF th[u].op = "requestData" /\ Value(th[u].g) = v
                THEN [th[u] EXCEPT !.rivals = @ \cup {t}]
                ELSE th[u]]

\* the threads whose returned or running requestData loses intact when a
\* releaseData works on the Entry of value v
Disturb(t, rec, v) ==
  th' = [u \in Threads |->
           IF u = t THEN rec
           ELSE IF th[u].op = "requestData" /\ Value(th[u].g) = v
                THEN [th[u] EXCEPT !.intact = FALSE]
                ELSE th[u]]

\* requestData: entry = findEntry(generator); needsToBeCreated = (entry == nullptr)
RequestDataFind(t) ==
  /\ th[t].pc = "requestData"
  /\ LET entry == findEntry(m_data, th[t].g) IN
       Set(t, [th[t] EXCEPT !.entry = entry, !.needsToBeCreated = (entry = 0),
                            !.pc = IF entry = 0 THEN "createEntry" ELSE "reference"])
  /\ UNCHANGED <<m_data, m_mutex, callVars, lifeVars, frameVars, ownVars, ncalls>>

\* requestData: if (needsToBeCreated) entry = createEntry(generator)
RequestDataCreate(t) ==
  /\ th[t].pc = "createEntry"
  /\ m_data' = createEntry(m_data, th[t].g)
  /\ Rival(t, [th[t] EXCEPT !.entry = Len(m_data) + 1, !.pc = "reference"], Value(th[t].g))
  /\ UNCHANGED <<m_mutex, callVars, lifeVars, frameVars, ownVars, ncalls>>

\* requestData: add r to entry->referencingObjects; return needsToBeCreated.
\* An entry pointer that no longer points into the vector is a dangling one;
\* the write through it is lost.
RequestDataReference(t) ==
  /\ th[t].pc = "reference"
  /\ m_data' = IF th[t].entry <= Len(m_data)
               THEN addReferencer(m_data, th[t].entry, th[t].r)
               ELSE m_data
  /\ Rival(t, Returned(th[t], th[t].needsToBeCreated, TRUE), Value(th[t].g))
  /\ Unlock(t)
  /\ UNCHANGED <<callVars, lifeVars, frameVars, ownVars, ncalls>>

\* releaseData: end = m_data.end(); it = m_data.begin()
ReleaseDataBegin(t) ==
  /\ th[t].pc = "releaseData"
  /\ Set(t, [th[t] EXCEPT !.entry = 1, !.end = Len(m_data), !.pc = "releaseLoop"])
  /\ UNCHANGED <<m_data, m_mutex, callVars, lifeVars, frameVars, ownVars, ncalls>>

\* releaseData: one turn of the loop up to removeAll(r), or the return at it == end
ReleaseDataLoop(t) ==
  /\ th[t].pc = "releaseLoop"
  /\ LET it == th[t].entry IN
       IF it > th[t].end \/ it > Len(m_data)
       THEN /\ Set(t, Returned(th[t], FALSE, FALSE))
            /\ Unlock(t)
            /\ UNCHANGED m_data
       ELSE IF GeneratorEq(m_data[it].generator, th[t].g)
            THEN /\ m_data' = [m_data EXCEPT ![it].referencingObjects = removeAll(@, th[t].r)]
                 /\ Disturb(t, [th[t] EXCEPT !.pc = "releaseCheck"], Value(th[t].g))
                 /\ UNCHANGED m_mutex
            ELSE /\ Set(t, [th[t] EXCEPT !.entry = it + 1])
                 /\ UNCHANGED <<m_data, m_mutex>>
  /\ UNCHANGED <<callVars, lifeVars, frameVars, ownVars, ncalls>>

\* releaseData: if (entry.referencingObjects.empty()) { m_data.erase(it); return; }
ReleaseDataCheck(t) ==
  /\ th[t].pc = "releaseCheck"
  /\ LET it == th[t].entry IN
       IF it <= Len(m_data) /\ m_data[it].referencingObjects = <<>>
       THEN /\ m_data' = erase(m_data, it)
            /\ Set(t, Returned(th[t], FALSE, FALSE))
            /\ Unlock(t)
       ELSE /\ Set(t, [th[t] EXCEPT !.entry = it + 1, !.pc = "releaseLoop"])
            /\ UNCHANGED <<m_data, m_mutex>>
  /\ UNCHANGED <<callVars, lifeVars, frameVars, ownVars, ncalls>>

\* getData: the whole body reads only
GetDataRead(t) ==
  /\ th[t].pc = "getData"
  /\ Set(t, Returned(th[t], FALSE, FALSE))
  /\ Unlock(t)
  /\ UNCHANGED <<m_data, callVars, lifeVars, frameVars, ownVars, ncalls>>

\* pendingGenerators: the whole body reads only
PendingGeneratorsRead(t) ==
  /\ th[t].pc = "pendingGenerators"
  /\ Set(t, Returned(th[t], FALSE, FALSE))
  /\ Unlock(t)
  /\ UNCHANGED <<m_data, callVars, lifeVars, frameVars, ownVars, ncalls>>

\* assignData: entry = findEntry(generator)
AssignDataFind(t) ==
  /\ th[t].pc = "assignData"
  /\ LET entry == findEntry(m_data, th[t].g) IN
       Set(t, [th[t] EXCEPT !.entry = entry,
                            !.pc = IF entry = 0 THEN "assignWarn" ELSE "assignStore"])
  /\ UNCHANGED <<m_data, m_mutex, callVars, lifeVars, frameVars, ownVars, ncalls>>

\* assignData: if (!entry) { qWarning() << ...; return; }
AssignDataWarn(t) ==
  /\ th[t].pc = "assignWarn"
  /\ Set(t, Returned(th[t], FALSE, FALSE))
  /\ Unlock(t)
  /\ UNCHANGED <<m_data, callVars, lifeVars, frameVars, ownVars, ncalls>>

\* assignData: entry->data = data
AssignDataStore(t) ==
  /\ th[t].pc = "assignStore"
  /\ m_data' = IF th[t].entry <= Len(m_data)
               THEN [m_data EXCEPT ![th[t].entry].data = th[t].d]
               ELSE m_data
  /\ Set(t, Returned(th[t], FALSE, FALSE))
  /\ Unlock(t)
  /\ UNCHANGED <<callVars, lifeVars, frameVars, ownVars, ncalls>>

\* contains -> findEntry: for (int i = 0, sz = m_data.size(); ...
ContainsBegin(t) ==
  /\ th[t].pc = "contains"
  /\ Set(t, [th[t] EXCEPT !.entry = 1, !.end = Len(m_data), !.pc = "containsLoop"])
  /\ UNCHANGED <<m_data, m_mutex, callVars, lifeVars, frameVars, ownVars, ncalls>>

\* contains -> findEntry: one turn of the loop.  m_data[i] with i beyond the
\* size the vector has by now reads outside it: any result.
ContainsLoop(t) ==
  /\ th[t].pc = "containsLoop"
  /\ LET i == th[t].entry IN
       IF i > th[t].end
       THEN Set(t, Returned(th[t], FALSE, TRUE))
       ELSE IF i > Len(m_data)
            THEN \E b \in BOOLEAN : Set(t, Returned(th[t], b, TRUE))
            ELSE IF GeneratorEq(m_data[i].generator, th[t].g)
                 THEN Set(t, Returned(th[t], TRUE, TRUE))
                 ELSE Set(t, [th[t] EXCEPT !.entry = i + 1])
  /\ UNCHANGED <<m_data, m_mutex, callVars, lifeVars, frameVars, ownVars, ncalls>>

NextConc ==
  \E t \in Threads :
    \/ CallOp(t)
    \/ Lock(t)
    \/ RequestDataFind(t)
    \/ RequestDataCreate(t)
    \/ RequestDataReference(t)
    \/ ReleaseDataBegin(t)
    \/ ReleaseDataLoop(t)
    \/ ReleaseDataCheck(t)
    \/ GetDataRead(t)
    \/ PendingGeneratorsRead(t)
    \/ AssignDataFind(t)
    \/ AssignDataWarn(t)
    \/ AssignDataStore(t)
    \/ ContainsBegin(t)
    \/ ContainsLoop(t)

SpecConc == Init /\ [][NextConc]_vars

\* a step of thread t inside a call it has made
StepConc(t) ==
  \/ Lock(t)
  \/ RequestDataFind(t)
  \/ RequestDataCreate(t)
  \/ RequestDataReference(t)
  \/ ReleaseDataBegin(t)
  \/ ReleaseDataLoop(t)
  \/ ReleaseDataCheck(t)
  \/ GetDataRead(t)
  \/ PendingGeneratorsRead(t)
  \/ AssignDataFind(t)
  \/ AssignDataWarn(t)
  \/ AssignDataStore(t)
  \/ ContainsBegin(t)
  \/ ContainsLoop(t)

\* thread t calls with one of the first NumFairGenerators generator handles
\* and, in requestData and releaseData, one of the first NumFairReferencers
\* referencers
CallOpFair(t) ==
  /\ CallOp(t)
  /\ th'[t].g <= NumFairGenerators
  /\ th'[t].r <= NumFairReferencers

NextConcFair == \E t \in Threads : CallOpFair(t) \/ StepConc(t)

\* SpecConcFair: the threads of SpecConc, scheduled fairly: a thread that can go
\* on inside its call does go on; no thread has to make a call
SpecConcFair ==
  Init /\ [][NextConcFair]_vars /\ \A t \in Threads : WF_vars(StepConc(t))

\* ------------------- SpecFrame: the manager under the scheduler of the frames
\* running[g]  : executions of the generator handle g that were started and
\*               whose result has not been reported yet
\* executed[v] : executions started for the Entry of value v that is in m_data
\*               (0 again once that Entry is erased)
\* The consumers call requestData and releaseData at any time.  A frame calls
\* pendingGenerators() and starts the execution of every generator returned; an
\* execution reports its result with assignData, in the same frame or after
\* later frames have begun.
RequestDataFrame ==
  \E g \in Generators, r \in Referencers :
    /\ m_data' = requestData(m_data, g, r).m_data
    /\ UNCHANGED <<frameVars, callVars, lifeVars, concVars, ownVars>>

ReleaseDataFrame ==
  \E g \in Generators, r \in Referencers :
    /\ m_data' = releaseData(m_data, g, r)
    /\ executed' = [v \in Values |-> IF HasEntry(m_data', v) THEN executed[v] ELSE 0]
    /\ UNCHANGED <<running, callVars, lifeVars, concVars, ownVars>>

BeginFrame ==
  LET ret == pendingGenerators(m_data) IN
    /\ ret # <<>>
    /\ \A k \in 1..Len(ret) :
         executed[Value(ret[k])] < MaxExecutions /\ running[ret[k]] < MaxExecutions
    /\ executed' = [v \in Values |->
                      executed[v] + Cardinality({k \in 1..Len(ret) : Value(ret[k]) = v})]
    /\ running' = [g \in Generators |->
                     running[g] + (IF VecContains(ret, g) THEN 1 ELSE 0)]
    /\ UNCHANGED <<m_data, callVars, lifeVars, concVars, ownVars>>

FinishGeneration ==
  \E g \in Generators, d \in DataPtrs \ {NullData} :
    /\ running[g] > 0
    /\ m_data' = assignData(m_data, g, d)
    /\ running' = [running EXCEPT ![g] = @ - 1]
    /\ UNCHANGED <<executed, callVars, lifeVars, concVars, ownVars>>

NextFrame ==
  \/ RequestDataFrame
  \/ ReleaseDataFrame
  \/ BeginFrame
  \/ FinishGeneration

SpecFrame == Init /\ [][NextFrame]_vars

\* ---------------------- SpecOwn: the owners of the produced data objects
\* held[c] : the handle consumer c keeps, which getData returned to it
\* refs[d] : the handles that share the ownership of data object d
\* freed   : the data objects that were freed
\* DataPtr is a shared-ownership handle: a copy of a handle adds an owner, the
\* end of a handle takes one away, and the object is freed with its last owner.
Owners == [refs |-> refs, freed |-> freed]

\* a copy of the handle d is made
Copy(o, d) ==
  IF d = NullData THEN o ELSE [o EXCEPT !.refs[d] = @ + 1]

\* a handle d comes to its end (destroyed or overwritten)
Destroy(o, d) ==
  IF d = NullData THEN o
  ELSE [refs |-> [o.refs EXCEPT ![d] = @ - 1],
        freed |-> IF o.refs[d] = 1 THEN o.freed \cup {d} ELSE o.freed]

SetOwners(o) == refs' = o.refs /\ freed' = o.freed

RequestDataOwn ==
  \E g \in Generators, r \in Referencers :
    /\ m_data' = requestData(m_data, g, r).m_data
    /\ UNCHANGED <<ownVars, callVars, lifeVars, concVars, frameVars>>

\* m_data.erase(it) ends the Entry and the data handle in it
ReleaseDataOwn ==
  \E g \in Generators, r \in Referencers :
    LET m2 == releaseData(m_data, g, r)
        gone == {i \in EntriesOf(m_data, Value(g)) : ~HasEntry(m2, Value(g))}
        d == IF gone = {} THEN NullData ELSE m_data[CHOOSE i \in gone : TRUE].data
    IN  /\ m_data' = m2
        /\ SetOwners(Destroy(Owners, d))
        /\ UNCHANGED <<held, callVars, lifeVars, concVars, frameVars>>

\* the caller owns the handle d for the time of the call (a data object that
\* has no owner yet is the one it has just produced); entry->data = data copies
\* d and ends the handle that was in the Entry
AssignDataOwn ==
  \E g \in Generators, d \in DataPtrs \ freed :
    LET entry == findEntry(m_data, g)
        o1 == Copy(Owners, d)
        o2 == IF entry = 0 THEN o1 ELSE Destroy(Copy(o1, d), m_data[entry].data)
    IN  /\ m_data' = assignData(m_data, g, d)
        /\ SetOwners(Destroy(o2, d))
        /\ UNCHANGED <<held, callVars, lifeVars, concVars, frameVars>>

\* getData that hands out the data without a handle of its own
GetDataOwn_borrows ==
  \E g \in Generators, c \in Holders :
    /\ held' = [held EXCEPT ![c] = getData(m_data, g)]
    /\ SetOwners(Destroy(Owners, held[c]))
    /\ UNCHANGED <<m_data, callVars, lifeVars, concVars, frameVars>>

\* consumer c keeps what getData returns: DataPtr is returned by value, a copy
\* of the handle in the Entry, and takes the place of the handle c had
GetDataOwn ==
  \E g \in Generators, c \in Holders :
    /\ held' = [held EXCEPT ![c] = getData(m_data, g)]
    /\ SetOwners(Destroy(Copy(Owners, getData(m_data, g)), held[c]))
    /\ UNCHANGED <<m_data, callVars, lifeVars, concVars, frameVars>>

\* consumer c lets go of the handle it keeps
DropOwn ==
  \E c \in Holders :
    /\ held[c] # NullData
    /\ held' = [held EXCEPT ![c] = NullData]
    /\ SetOwners(Destroy(Owners, held[c]))
    /\ UNCHANGED <<m_data, callVars, lifeVars, concVars, frameVars>>

NextOwn ==
  \/ RequestDataOwn
  \/ ReleaseDataOwn
  \/ AssignDataOwn
  \/ GetDataOwn
  \/ DropOwn

SpecOwn == Init /\ [][NextOwn]_vars

\* ------------------------------------------------------------------ claims
Listed(m, v) ==
  LET ret == pendingGenerators(m) IN \E k \in 1..Len(ret) : Value(ret[k]) = v

\* C1: in every state reached by requestData, releaseData and assignData calls
\* (and the queries), with equal generators given as distinct handles, no two
\* Entries of m_data have equal generators.
C1_OneEntryPerGenerator ==
  \A i, j \in 1..Len(m_data) :
    i # j => ~GeneratorEq(m_data[i].generator, m_data[j].generator)

\* a requestData came with a handle other than the one in the equal Entry
C1_Witness ==
  /\ call.op = "requestData"
  /\ \E i \in 1..Len(pre) :
       GeneratorEq(pre[i].generator, call.g) /\ pre[i].generator # call.g
  /\ Len(m_data) = Cardinality(Values)

\* C2: after every call each Entry has a referencer, and a releaseData that
\* takes the last referencer of an Entry leaves no Entry for that generator.
C2_NoEntryWithoutReferencer ==
  /\ \A i \in 1..Len(m_data) : m_data[i].referencingObjects # <<>>
  /\ call.op = "releaseData" =>
       \A i \in 1..Len(pre) :
         (GeneratorEq(pre[i].generator, call.g)
            /\ \A k \in 1..Len(pre[i].referencingObjects) :
                 pre[i].referencingObjects[k] = call.r)
           => ~HasEntry(m_data, Value(call.g))

\* a releaseData took the last referencer while another Entry stayed
C2_Witness ==
  /\ call.op = "releaseData"
  /\ \E i \in 1..Len(pre) :
       GeneratorEq(pre[i].generator, call.g) /\ pre[i].referencingObjects = <<call.r>>
  /\ Len(pre) = 2
  /\ Len(m_data) = 1

\* C3: requestData(g, r) returns true exactly when no Entry equal to g was there
\* before the call; after the call an Entry equal to g is there with r among
\* its referencers.
C3_RequestDataResult ==
  call.op = "requestData" =>
    /\ call.ret = ~HasEntry(pre, Value(call.g))
    /\ \E i \in 1..Len(m_data) :
         /\ GeneratorEq(m_data[i].generator, call.g)
         /\ VecContains(m_data[i].referencingObjects, call.r)

\* a requestData with a new referencer found an Entry that has its data
C3_Witness ==
  /\ call.op = "requestData"
  /\ call.ret = FALSE
  /\ \E i \in 1..Len(pre) :
       /\ GeneratorEq(pre[i].generator, call.g)
       /\ pre[i].data # NullData
       /\ ~VecContains(pre[i].referencingObjects, call.r)

\* two requestData calls for equal generators, both made while no equal Entry
\* was there, both returned, and nothing else has worked on that Entry
Raced(a, b) ==
  /\ a # b
  /\ th[a].pc = "idle" /\ th[a].op = "requestData"
  /\ th[b].pc = "idle" /\ th[b].op = "requestData"
  /\ GeneratorEq(th[a].g, th[b].g)
  /\ th[a].sawNone /\ th[b].sawNone
  /\ th[a].intact /\ th[b].intact
  /\ th[a].rivals \subseteq {b} /\ th[b].rivals \subseteq {a}

\* C4: of two concurrent requestData(g, rA) and requestData(g, rB) with no
\* Entry for g beforehand, under every interleaving exactly one returns true,
\* one Entry for g is there afterwards, and it holds both rA and rB.
C4_ConcurrentRequestsCreateOnce ==
  \A a, b \in Threads :
    Raced(a, b) =>
      /\ th[a].ret # th[b].ret
      /\ Cardinality(EntriesOf(m_data, Value(th[a].g))) = 1
      /\ \A i \in EntriesOf(m_data, Value(th[a].g)) :
           /\ VecContains(m_data[i].referencingObjects, th[a].r)
           /\ VecContains(m_data[i].referencingObjects, th[b].r)

\* the two calls came with distinct handles and distinct referencers
C4_Witness ==
  \E a, b \in Threads :
    Raced(a, b) /\ th[a].g # th[b].g /\ th[a].r # th[b].r

\* thread t is reading m_data
Reading(t) ==
  th[t].pc \in {"containsLoop", "requestData", "releaseLoop", "getData",
                "pendingGenerators", "assignData"}

\* thread t has begun a change of m_data that its handler has not finished:
\* an Entry just created without its referencer, or a referencer just removed
\* with the test for the erase still to come
Modifying(t) ==
  \/ th[t].pc = "reference" /\ th[t].needsToBeCreated
  \/ th[t].pc = "releaseCheck"

\* C5: each of the six public operations holds m_mutex for its whole access to
\* m_data, so no operation reads m_data while another thread's operation is in
\* the middle of modifying it.
C5_OperationsAtomic ==
  \A t, u \in Threads : (t # u /\ Modifying(u)) => ~Reading(t)

\* the Entries of the values vs that were there before the last call with data
\* in ds, and are still there, have the data they had
SurvivingDataKept(vs, ds) ==
  \A i \in 1..Len(pre), j \in 1..Len(m_data) :
    (/\ GeneratorEq(pre[i].generator, m_data[j].generator)
     /\ Value(pre[i].generator) \in vs
     /\ pre[i].data \in ds)
      => m_data[j].data = pre[i].data

C7_PendingGeneratorsExact ==
  LET ret == pendingGenerators(m_data) IN
    /\ {ret[k] : k \in 1..Len(ret)}
         = {m_data[i].generator : i \in {j \in 1..Len(m_data) : m_data[j].data = NullData}}
    /\ \A k, l \in 1..Len(ret) : k # l => ~GeneratorEq(ret[k], ret[l])

\* an Entry with data stands before an Entry without
C7_Witness ==
  /\ Len(m_data) >= 2
  /\ m_data[1].data # NullData
  /\ m_data[2].data = NullData
  /\ call.op = "pendingGenerators"
  /\ call.ret = <<m_data[2].generator>>

C9_OneTruePerLifetime ==
  \A v \in Values :
    /\ trueCount[v] <= 1 + destroyedCount[v]
    /\ HasEntry(m_data, v) => trueCount[v] = destroyedCount[v] + 1

\* an Entry in its second lifetime, with two referencers
C9_Witness ==
  \E v \in Values :
    /\ trueCount[v] = 2
    /\ destroyedCount[v] = 1
    /\ \E i \in EntriesOf(m_data, v) : Len(m_data[i].referencingObjects) >= 2

\* C10: assignData(g, data) with no Entry equal to g changes nothing: m_data
\* is what it was, contains(g) is false, and the call returns.
C10_AssignDataUnknownIsNoOp ==
  (call.op = "assignData" /\ ~HasEntry(pre, Value(call.g))) =>
    /\ m_data = pre
    /\ ~contains(m_data, call.g)

\* an assignData of a data handle for a generator not in a non-empty cache
C10_Witness ==
  /\ call.op = "assignData"
  /\ ~HasEntry(pre, Value(call.g))
  /\ call.d # NullData
  /\ pre # <<>>

\* ------------------------------------------------------------------ C11
\* the referencers of the Entry of value v in m (the empty set without Entry)
ReferencersOf(m, v) ==
  {r \in Referencers :
     \E i \in EntriesOf(m, v) : VecContains(m[i].referencingObjects, r)}

\* C11: releaseData(g, r) leaves the whole cache as it was when there is no
\* Entry equal to g, and when there is one but r is not among its referencers.
C11_ReleaseDataOfNonMemberIsNoOp ==
  (call.op = "releaseData" /\ call.r \notin ReferencersOf(pre, Value(call.g)))
    => m_data = pre

\* a releaseData with a referencer the Entry does not hold found the Entry with
\* its data and another referencer; the call came with the other handle
C11_Witness ==
  /\ call.op = "releaseData"
  /\ \E i \in 1..Len(pre) :
       /\ GeneratorEq(pre[i].generator, call.g)
       /\ pre[i].generator # call.g
       /\ pre[i].data # NullData
       /\ pre[i].referencingObjects # <<>>
       /\ ~VecContains(pre[i].referencingObjects, call.r)

\* ------------------------------------------------------------------ C12
\* C12: releaseData(g, r) on an Entry that holds r takes exactly r out of its
\* referencers, and the Entry is gone afterwards if and only if r was its only
\* referencer; the order of the referencers that stay is kept.
C12_ReleaseDataRemovesOneReferencer ==
  call.op = "releaseData" =>
    \A i \in EntriesOf(pre, Value(call.g)) :
      VecContains(pre[i].referencingObjects, call.r) =>
        /\ ReferencersOf(m_data, Value(call.g))
             = ReferencersOf(pre, Value(call.g)) \ {call.r}
        /\ (HasEntry(m_data, Value(call.g)) <=> pre[i].referencingObjects # <<call.r>>)
        /\ \A j \in EntriesOf(m_data, Value(call.g)) :
             /\ Len(m_data[j].referencingObjects) = Len(pre[i].referencingObjects) - 1
             /\ \A a, b \in 1..Len(m_data[j].referencingObjects) :
                  a < b => \E c, d \in 1..Len(pre[i].referencingObjects) :
                    /\ c < d
                    /\ pre[i].referencingObjects[c] = m_data[j].referencingObjects[a]
                    /\ pre[i].referencingObjects[d] = m_data[j].referencingObjects[b]

\* the first of two referencers was released and the Entry stayed with the second
C12_Witness ==
  /\ call.op = "releaseData"
  /\ \E i \in EntriesOf(pre, Value(call.g)) :
       /\ Len(pre[i].referencingObjects) = 2
       /\ pre[i].referencingObjects[1] = call.r
       /\ \E j \in EntriesOf(m_data, Value(call.g)) :
            m_data[j].referencingObjects = <<pre[i].referencingObjects[2]>>

\* ------------------------------------------------------------------ C13
\* C13: getData(g) returns the data of the Entry equal to g, which is the
\* empty handle while that data is absent, and the empty handle when there is
\* no such Entry; after a releaseData that took the last referencer of an
\* Entry with data, getData of that generator is empty.
C13_GetDataResult ==
  /\ call.op = "getData" =>
       IF HasEntry(pre, Value(call.g))
       THEN \A i \in EntriesOf(pre, Value(call.g)) : call.ret = pre[i].data
       ELSE call.ret = NullData
  /\ call.op = "releaseData" =>
       \A i \in EntriesOf(pre, Value(call.g)) :
         pre[i].referencingObjects = <<call.r>> =>
           \A h \in Generators :
             GeneratorEq(h, call.g) => getData(m_data, h) = NullData
  /\ \A h \in Generators :
       ~HasEntry(m_data, Value(h)) => getData(m_data, h) = NullData

\* getData with the other handle of an equal generator returned the data of an
\* Entry that is not the first one, and the first one has no data
C13_Witness ==
  /\ call.op = "getData"
  /\ call.ret # NullData
  /\ Len(pre) >= 2
  /\ pre[1].data = NullData
  /\ \E i \in 2..Len(pre) :
       GeneratorEq(pre[i].generator, call.g) /\ pre[i].generator # call.g

\* ------------------------------------------------------------------ C14
\* C14: requestData(g, r) with r already among the referencers of the Entry
\* equal to g returns false and leaves the cache as it was, and no Entry holds
\* the same referencer twice.
C14_RequestDataIdempotent ==
  /\ (call.op = "requestData" /\ call.r \in ReferencersOf(pre, Value(call.g)))
       => (call.ret = FALSE /\ m_data = pre)
  /\ \A i \in 1..Len(m_data) :
       \A a, b \in 1..Len(m_data[i].referencingObjects) :
         m_data[i].referencingObjects[a] = m_data[i].referencingObjects[b] => a = b

\* requestData was repeated by the second of two referencers with the other
\* handle of the generator
C14_Witness ==
  /\ call.op = "requestData"
  /\ call.ret = FALSE
  /\ \E i \in EntriesOf(pre, Value(call.g)) :
       /\ Len(pre[i].referencingObjects) = 2
       /\ pre[i].referencingObjects[2] = call.r
       /\ pre[i].generator # call.g

\* ------------------------------------------------------------------ C15
\* the requestData that follows the erase of an Entry of the same value with
\* data returns true and makes one Entry of that value, with the handle and the
\* referencer of the call and no data: getData is empty, pendingGenerators
\* lists the generator
FreshAfterCycle ==
  (call.op = "requestData" /\ Value(call.g) \in lost) =>
    /\ call.ret = TRUE
    /\ \E j \in 1..Len(m_data) :
         /\ EntriesOf(m_data, Value(call.g)) = {j}
         /\ m_data[j] = [generator |-> call.g, referencingObjects |-> <<call.r>>,
                         data |-> NullData]
    /\ \A h \in Generators : GeneratorEq(h, call.g) => getData(m_data, h) = NullData
    /\ VecContains(pendingGenerators(m_data), call.g)

\* the values of which m holds an Entry with data
Ready(m) == {v \in Values : \E i \in EntriesOf(m, v) : m[i].data # NullData}

OtherEntries(m, v) == SelectSeq(m, LAMBDA e : Value(e.generator) # v)

\* C17: requestData(g, r) and releaseData(g, r) change no Entry whose generator
\* is not equal to g and leave the data (and the generator handle) of the Entry
\* of g as it was if that Entry is still there; assignData(g, d) leaves the
\* number and order of the Entries, every generator handle and every referencer
\* set as they were, and the data of every Entry whose generator is not equal to g.
C17_OperationsTouchOwnEntryOnly ==
  /\ call.op \in {"requestData", "releaseData"} =>
       /\ OtherEntries(m_data, Value(call.g)) = OtherEntries(pre, Value(call.g))
       /\ \A i \in EntriesOf(pre, Value(call.g)), j \in EntriesOf(m_data, Value(call.g)) :
            /\ m_data[j].data = pre[i].data
            /\ m_data[j].generator = pre[i].generator
  /\ call.op = "assignData" =>
       /\ Len(m_data) = Len(pre)
       /\ \A i \in 1..Len(pre) :
            /\ m_data[i].generator = pre[i].generator
            /\ m_data[i].referencingObjects = pre[i].referencingObjects
            /\ Value(pre[i].generator) # Value(call.g) => m_data[i].data = pre[i].data

\* releaseData erased the first of two Entries; the second, with data and two
\* referencers, is what is left
C17_Witness ==
  /\ call.op = "releaseData"
  /\ Len(pre) = 2
  /\ Value(pre[1].generator) = Value(call.g)
  /\ pre[2].data # NullData
  /\ Len(pre[2].referencingObjects) = 2
  /\ m_data = <<pre[2]>>

\* ------------------------------------------------------------------ C18
\* C18: getData, pendingGenerators and contains leave m_data as it was, for
\* every argument, a generator without Entry included: no Entry is made and
\* pendingGenerators lists what it listed before.
C18_QueriesChangeNothing ==
  call.op \in {"getData", "pendingGenerators", "contains"} =>
    /\ m_data = pre
    /\ pendingGenerators(m_data) = pendingGenerators(pre)
    /\ \A v \in Values : HasEntry(m_data, v) <=> HasEntry(pre, v)

\* getData was called for a generator without Entry while the cache held an
\* Entry of the other value that is pending
C18_Witness ==
  /\ call.op = "getData"
  /\ ~HasEntry(pre, Value(call.g))
  /\ Len(pre) = 1
  /\ pre[1].data = NullData

\* ------------------------------------------------------------------ C16
\* C16: with frames that call pendingGenerators() and execute every generator
\* returned, results reported by assignData in the same frame or after later
\* frames have begun, and consumers calling requestData and releaseData at any
\* time, no generator is executed twice while one Entry lives.
C16_NoGeneratorExecutedTwice ==
  \A v \in Values : executed[v] <= 1

\* ------------------------------------------------------------------ C19
\* thread t is in no call, waits for the mutex, or is in contains (which takes
\* no lock)
Unlocked(t) == th[t].pc \in {"idle", "lock", "contains", "containsLoop"}

\* C19: a thread that has left its operation, by whichever return, does not
\* hold m_mutex, so the mutex is free whenever no operation is in progress; and
\* with fairly scheduled threads every operation that was started completes.
C19_LockReleasedAndCallsComplete ==
  /\ [](\A t \in Threads : Unlocked(t) => m_mutex # t)
  /\ []((\A t \in Threads : th[t].pc = "idle") => m_mutex = 0)
  /\ \A t \in Threads : (th[t].pc # "idle") ~> (th[t].pc = "idle")

\* one thread's requestData made an Entry and the other thread's releaseData
\* erased it and left by the return inside the loop; no call is in progress
C19_Witness ==
  /\ \A t \in Threads : th[t].pc = "idle"
  /\ m_mutex = 0
  /\ ncalls = 2
  /\ m_data = <<>>
  /\ \E t \in Threads : th[t].op = "requestData" /\ th[t].ret = TRUE

\* ------------------------------------------------------------------ C20
\* the handles that hold data object d: those in the Entries and those the
\* consumers keep
HoldersOf(d) ==
  Cardinality({i \in 1..Len(m_data) : m_data[i].data = d})
    + Cardinality({c \in Holders : held[c] = d})

\* C20: a handle that getData returned stays valid for the consumer that keeps
\* it, also after the Entry it came from was erased by releaseData: a data
\* object is freed only when no Entry and no consumer holds it, and its owners
\* are exactly the handles in the Entries and with the consumers.
C20_ReturnedHandleStaysValid ==
  /\ \A c \in Holders : held[c] # NullData => held[c] \notin freed
  /\ \A d \in freed : HoldersOf(d) = 0
  /\ \A d \in DataPtrs \ {NullData} : refs[d] = HoldersOf(d)

\* a consumer keeps a handle that is not freed, and the Entry it came from has
\* been erased: no Entry is left
C20_Witness ==
  /\ m_data = <<>>
  /\ \E c \in Holders : held[c] # NullData /\ held[c] \notin freed /\ refs[held[c]] = 1

=============================================================================
